---- MODULE Spec2Model ----
(***************************************************************************)
(* Job orchestration of the speaker-diarization service (src/main.py).     *)
(*                                                                         *)
(* The service keeps one dictionary, job_storage, shared by                *)
(*   - the asyncio event loop, which runs the request handlers             *)
(*     diarize_audio, get_job_status and delete_job one at a time          *)
(*     (a handler gives way to another handler only at an await), and      *)
(*   - one thread-pool thread per accepted job, which runs the             *)
(*     synchronous background task process_diarization; a thread can be    *)
(*     preempted between any two statements.                               *)
(* Program positions are named after the source line they stand at.        *)
(***************************************************************************)
EXTENDS Integers, Sequences, FiniteSets, TLC

\* Number of job ids uuid4 hands out in one run of the model.
NumJobs == 1

\* Number of job ids uuid4 hands out in one run of the model with
\* concurrent jobs.
NumConcurrent == 2

JobIds == 1..(IF NumJobs > NumConcurrent THEN NumJobs ELSE NumConcurrent)

\* Python's None, for the Optional fields result and error.
None == <<>>

\* Progress fractions, in tenths (0.1 is 1, 1.0 is 10).
ProgressQueued == 0
ProgressStarted == 1
ProgressNormalized == 2
ProgressTranscribed == 4
ProgressAligned == 6
ProgressDiarized == 8
ProgressDone == 10

\* ------------------------------------------------------------------------
\* Upload file names and the extension test of diarize_audio.
\* A file name is a sequence of one-character strings.

LowerChar(c) ==
    CASE c = "A" -> "a" [] c = "W" -> "w" [] c = "V" -> "v"
      [] c = "M" -> "m" [] c = "P" -> "p" [] c = "F" -> "f"
      [] c = "L" -> "l" [] c = "C" -> "c"
      [] OTHER -> c

Lower(s) == [i \in 1..Len(s) |-> LowerChar(s[i])]

EndsWith(s, suf) ==
    /\ Len(suf) <= Len(s)
    /\ SubSeq(s, Len(s) - Len(suf) + 1, Len(s)) = suf

SupportedSuffixes ==
    { <<".", "m", "p", "3">>, <<".", "w", "a", "v">>,
      <<".", "m", "4", "a">>, <<".", "f", "l", "a", "c">> }

IsSupported(filename) ==
    \E suf \in SupportedSuffixes : EndsWith(Lower(filename), suf)

FileNames ==
    { <<"a", ".", "m", "p", "3">>, <<"a", ".", "W", "A", "V">>,
      <<"a", ".", "m", "4", "a">>, <<"a", ".", "f", "l", "a", "c">>,
      <<"a", ".", "t", "x", "t">>, <<"w", "a", "v">>,
      <<"a", ".", "w", "a", "v", ".", "o", "g", "g">>, <<>> }

\* ------------------------------------------------------------------------
\* Temporary files of a job.

UploadPath(j) == <<j, "upload">>
ProcessedPath(j) == <<j, "processed">>
Unbound == <<"unbound">>

\* ------------------------------------------------------------------------
\* format_diarization_output (lines 188-271).
\* A string is a sequence of one-character strings; a time is a whole
\* number of seconds.

\* Longest run of segments in one call of the model.
MaxSegs == 3

Whitespace == {" ", "\n"}

\* str.strip()
RECURSIVE LStrip(_)
LStrip(s) == IF s # <<>> /\ Head(s) \in Whitespace THEN LStrip(Tail(s)) ELSE s

RECURSIVE RStrip(_)
RStrip(s) ==
    IF s # <<>> /\ s[Len(s)] \in Whitespace THEN RStrip(SubSeq(s, 1, Len(s) - 1)) ELSE s

Strip(s) == RStrip(LStrip(s))

\* str.split(): the maximal runs of non-whitespace characters, in order.
RECURSIVE SplitFrom(_, _, _)
SplitFrom(s, word, acc) ==
    LET flushed == IF word = <<>> THEN acc ELSE Append(acc, word)
    IN IF s = <<>> THEN flushed
       ELSE IF Head(s) \in Whitespace THEN SplitFrom(Tail(s), <<>>, flushed)
       ELSE SplitFrom(Tail(s), Append(word, Head(s)), acc)

Split(s) == SplitFrom(s, <<>>, <<>>)

\* current_speaker = None (line 195); no speaker label is this string.
NoSpeaker == "None"

\* current_start = None, current_end = None (lines 197-198).
NoTime == -1

\* speakers = {} (line 192).
EmptyDict == [k \in {} |-> 0]

\* Lines 195-198 and 191-192: the loop's variables before the first segment.
FmtStart ==
    [segments |-> <<>>, speakers |-> EmptyDict, current_speaker |-> NoSpeaker,
     current_text |-> <<>>, current_start |-> NoTime, current_end |-> NoTime]

\* Lines 209-213.
NewSpeaker == [total_duration |-> 0, segment_count |-> 0, words |-> <<>>]

\* Mutant of CloseTurn: the turn's words are not added to its speaker's.
CloseTurn_DropsWords(st) ==
    LET duration == st.current_end - st.current_start
    IN [st EXCEPT
          !.segments = Append(@, [speaker |-> st.current_speaker,
                                  text |-> Strip(st.current_text),
                                  start |-> st.current_start,
                                  end |-> st.current_end,
                                  duration |-> duration]),
          !.speakers[st.current_speaker] =
              [total_duration |-> @.total_duration + duration,
               segment_count |-> @.segment_count + 1,
               words |-> @.words]]

\* Lines 222-232 and 242-252: the open turn is appended to segments and
\* added to its speaker's totals.
CloseTurn(st) ==
    LET duration == st.current_end - st.current_start
    IN [st EXCEPT
          !.segments = Append(@, [speaker |-> st.current_speaker,
                                  text |-> Strip(st.current_text),
                                  start |-> st.current_start,
                                  end |-> st.current_end,
                                  duration |-> duration]),
          !.speakers[st.current_speaker] =
              [total_duration |-> @.total_duration + duration,
               segment_count |-> @.segment_count + 1,
               words |-> @.words \o Split(st.current_text)]]

\* Mutant of FmtStep: a segment without a speaker ends the open turn.
FmtStep_UnlabeledEndsTurn(st, segment) ==
    IF "speaker" \notin DOMAIN segment
      THEN IF st.current_speaker # NoSpeaker
             THEN [CloseTurn(st) EXCEPT !.current_speaker = NoSpeaker]
             ELSE st
      ELSE LET speaker == segment.speaker
               text == Strip(segment.text)
               seen == [st EXCEPT !.speakers =
                          IF speaker \in DOMAIN st.speakers
                            THEN st.speakers
                            ELSE (speaker :> NewSpeaker) @@ st.speakers]
           IN IF seen.current_speaker = speaker
                THEN [seen EXCEPT !.current_text = @ \o <<" ">> \o text,
                                  !.current_end = segment.end]
                ELSE [(IF seen.current_speaker # NoSpeaker THEN CloseTurn(seen) ELSE seen)
                        EXCEPT !.current_speaker = speaker,
                               !.current_text = text,
                               !.current_start = segment.start,
                               !.current_end = segment.end]

\* Mutant of FmtStep: a new turn starts where the previous turn ended.
FmtStep_StartsAtPreviousEnd(st, segment) ==
    IF "speaker" \notin DOMAIN segment
      THEN st
      ELSE LET speaker == segment.speaker
               text == Strip(segment.text)
               seen == [st EXCEPT !.speakers =
                          IF speaker \in DOMAIN st.speakers
                            THEN st.speakers
                            ELSE (speaker :> NewSpeaker) @@ st.speakers]
           IN IF seen.current_speaker = speaker
                THEN [seen EXCEPT !.current_text = @ \o <<" ">> \o text,
                                  !.current_end = segment.end]
                ELSE [(IF seen.current_speaker # NoSpeaker THEN CloseTurn(seen) ELSE seen)
                        EXCEPT !.current_speaker = speaker,
                               !.current_text = text,
                               !.current_start = IF seen.current_speaker # NoSpeaker
                                                  THEN seen.current_end ELSE segment.start,
                               !.current_end = segment.end]

\* Mutant of FmtStep: a new turn keeps the start of the previous turn.
FmtStep_KeepsStart(st, segment) ==
    IF "speaker" \notin DOMAIN segment
      THEN st
      ELSE LET speaker == segment.speaker
               text == Strip(segment.text)
               seen == [st EXCEPT !.speakers =
                          IF speaker \in DOMAIN st.speakers
                            THEN st.speakers
                            ELSE (speaker :> NewSpeaker) @@ st.speakers]
           IN IF seen.current_speaker = speaker
                THEN [seen EXCEPT !.current_text = @ \o <<" ">> \o text,
                                  !.current_end = segment.end]
                ELSE [(IF seen.current_speaker # NoSpeaker THEN CloseTurn(seen) ELSE seen)
                        EXCEPT !.current_speaker = speaker,
                               !.current_text = text,
                               !.current_start = IF seen.current_speaker # NoSpeaker
                                                  THEN seen.current_start ELSE segment.start,
                               !.current_end = segment.end]

\* Lines 200-238: one iteration of the loop over result["segments"].
FmtStep(st, segment) ==
    IF "speaker" \notin DOMAIN segment
      THEN st
      ELSE LET speaker == segment.speaker
               text == Strip(segment.text)
               seen == [st EXCEPT !.speakers =
                          IF speaker \in DOMAIN st.speakers
                            THEN st.speakers
                            ELSE (speaker :> NewSpeaker) @@ st.speakers]
           IN IF seen.current_speaker = speaker
                THEN [seen EXCEPT !.current_text = @ \o <<" ">> \o text,
                                  !.current_end = segment.end]
                ELSE [(IF seen.current_speaker # NoSpeaker THEN CloseTurn(seen) ELSE seen)
                        EXCEPT !.current_speaker = speaker,
                               !.current_text = text,
                               !.current_start = segment.start,
                               !.current_end = segment.end]

RECURSIVE FmtLoop(_, _)
FmtLoop(st, segs) ==
    IF segs = <<>> THEN st ELSE FmtLoop(FmtStep(st, Head(segs)), Tail(segs))

\* Mutant of FmtFinish: the turn still open after the loop is not emitted.
FmtFinish_DropsLastTurn(st) == st

\* Lines 240-252.
FmtFinish(st) == IF st.current_speaker # NoSpeaker THEN CloseTurn(st) ELSE st

\* f"{x:.2f}" of a whole number of seconds.
Fmt2f(x) == <<ToString(x), ".00">>

\* Lines 254-257: the transcript before its final strip().
RECURSIVE TranscriptOf(_)
TranscriptOf(turns) ==
    IF turns = <<>> THEN <<>>
    ELSE LET t == Head(turns)
         IN <<t.speaker, " ", "[">> \o Fmt2f(t.start) \o <<"s", " ", "-", " ">>
              \o Fmt2f(t.end) \o <<"s", "]", ":", " ">> \o t.text \o <<"\n", "\n">>
              \o TranscriptOf(Tail(turns))

RECURSIVE GCD(_, _)
GCD(a, b) == IF b = 0 THEN a ELSE GCD(b, a % b)

\* The quotient n / d (d > 0) as the fraction in lowest terms.
Quotient(n, d) == <<n \div GCD(n, d), d \div GCD(n, d)>>

\* Lines 259-263, for a non-zero audio_duration and segment_count.
SpeakerStats(data, audio_duration) ==
    [total_duration |-> data.total_duration,
     segment_count |-> data.segment_count,
     words |-> data.words,
     percentage |-> Quotient(data.total_duration * 100, audio_duration),
     average_segment_duration |-> Quotient(data.total_duration, data.segment_count),
     word_count |-> Len(data.words)]

\* What a call has not produced yet.
NotCalled == <<>>

\* format_diarization_output(result, audio_duration): the returned
\* dictionary, or the ZeroDivisionError of the divisions of lines 261-262.
format_diarization_output(segs, audio_duration) ==
    LET st == FmtFinish(FmtLoop(FmtStart, segs))
    IN IF \E k \in DOMAIN st.speakers :
              audio_duration = 0 \/ st.speakers[k].segment_count = 0
         THEN <<"ZeroDivisionError">>
         ELSE <<"returned",
                [transcript |-> Strip(TranscriptOf(st.segments)),
                 speakers |-> [k \in DOMAIN st.speakers |->
                                  SpeakerStats(st.speakers[k], audio_duration)],
                 segments |-> st.segments,
                 audio_duration |-> audio_duration,
                 total_speakers |-> Cardinality(DOMAIN st.speakers)]>>

\* The calls of the model: up to MaxSegs segments in chronological order
\* that do not overlap, each labeled A or B or carrying no speaker key.
SegmentKinds ==
    { [text |-> <<" ", "a">>, len |-> 1],
      [text |-> <<"b", " ", "c", " ">>, len |-> 2],
      [text |-> <<" ">>, len |-> 1] }

Labels == {"A", "B"}

Gaps == {0, 1}

SegmentChoices == [kind : SegmentKinds, gap : Gaps, label : Labels \cup {NoSpeaker}]

RECURSIVE BuildSegments(_, _)
BuildSegments(choices, from) ==
    IF choices = <<>> THEN <<>>
    ELSE LET c == Head(choices)
             start == from + c.gap
             end == start + c.kind.len
             timed == [text |-> c.kind.text, start |-> start, end |-> end]
             seg == IF c.label = NoSpeaker THEN timed
                    ELSE [speaker |-> c.label, text |-> c.kind.text,
                          start |-> start, end |-> end]
         IN <<seg>> \o BuildSegments(Tail(choices), end)

\* The audio durations of the calls on a list of segments: none (a waveform
\* of zero samples, line 123), one shorter than most lists, and the end of
\* the last segment.
LastEnd(segs) == IF segs = <<>> THEN 0 ELSE segs[Len(segs)].end

AudioDurations(segs) == {0, 2, LastEnd(segs)}

ChoiceSequences == UNION { [1..n -> SegmentChoices] : n \in 0..MaxSegs }

VARIABLES
    job_storage,      \* the dictionary job id -> record
    next_id,          \* the next id uuid4 will return
    pc,               \* per job id: position of its diarize_audio call and task
    files,            \* the temporary files that exist
    processed_audio,  \* per job: the local variable of process_diarization
    exc,              \* per job: the exception its task is handling (str(e))
    outcome,          \* per job: how its task ended
    http,             \* the handler the event loop is running, or its response
    fmt_in,           \* the arguments of a format_diarization_output call
    fmt_out           \* what that call returned or raised

job_vars == <<job_storage, next_id, pc, files, processed_audio, exc, outcome, http>>

vars == <<job_storage, next_id, pc, files, processed_audio, exc, outcome, http,
          fmt_in, fmt_out>>

Idle == [op |-> "idle", id |-> 0, at |-> "idle", code |-> 0,
         status |-> "", progress |-> -1, result |-> None, error |-> None]

NewRecord ==
    [status |-> "queued", progress |-> ProgressQueued, result |-> None, error |-> None]

FormattedResult(j) == <<"formatted_result", j>>

Has(j) == j \in DOMAIN job_storage

\* job_storage[job_id][field] = value, for a job id that is present.
SetField(j, field, value) ==
    [job_storage EXCEPT ![j] = [@ EXCEPT ![field] = value]]

Response(op, j, code) == [Idle EXCEPT !.op = op, !.id = j, !.at = "response", !.code = code]

\* The state after startup of a run in which uuid4 hands out the ids 1..n:
\* position "unused" is an id not handed out yet, "never" one the run does
\* not hand out.
JobInitOf(n) ==
    /\ job_storage = << >>
    /\ next_id = 1
    /\ pc = [j \in JobIds |-> IF j <= n THEN "unused" ELSE "never"]
    /\ files = {}
    /\ processed_audio = [j \in JobIds |-> Unbound]
    /\ exc = [j \in JobIds |-> None]
    /\ outcome = [j \in JobIds |-> "none"]
    /\ http = Idle

JobInit == JobInitOf(NumJobs)

Init ==
    /\ JobInit
    /\ fmt_in = [segments |-> <<>>, audio_duration |-> 0]
    /\ fmt_out = NotCalled

\* ------------------------------------------------------------------------
\* Request handlers, run by the event loop.

\* diarize_audio, lines 284-288: the file type is not supported.
DiarizeReject(filename) ==
    /\ http = Idle
    /\ ~IsSupported(filename)
    /\ http' = Response("diarize", 0, 400)
    /\ UNCHANGED <<job_storage, next_id, pc, files, processed_audio, exc, outcome, fmt_in, fmt_out>>

\* diarize_audio, lines 284-305: the job record is created, the temporary
\* file is opened, and the handler awaits the upload's bytes.
DiarizeAccept(filename) ==
    /\ http = Idle
    /\ IsSupported(filename)
    /\ next_id \in JobIds /\ pc[next_id] = "unused"
    /\ job_storage' = (next_id :> NewRecord) @@ job_storage
    /\ files' = files \cup {UploadPath(next_id)}
    /\ pc' = [pc EXCEPT ![next_id] = "l305"]
    /\ next_id' = next_id + 1
    /\ UNCHANGED <<processed_audio, exc, outcome, http, fmt_in, fmt_out>>

\* diarize_audio, lines 305-312: the upload is saved and the task is added.
DiarizeSaved(j) ==
    /\ http = Idle
    /\ pc[j] = "l305"
    /\ pc' = [pc EXCEPT ![j] = "scheduled"]
    /\ http' = Response("diarize", j, 200)
    /\ UNCHANGED <<job_storage, next_id, files, processed_audio, exc, outcome, fmt_in, fmt_out>>

\* diarize_audio, lines 314-317: reading or writing the upload raised e.
\* Either the HTTPException of line 317 or, for a record deleted during the
\* await, the KeyError of line 315 leaves the handler: a 500 response.
DiarizeSaveFail(j) ==
    /\ http = Idle
    /\ pc[j] = "l305"
    /\ pc' = [pc EXCEPT ![j] = "rejected"]
    /\ job_storage' = IF Has(j)
                        THEN [job_storage EXCEPT ![j] =
                                [@ EXCEPT !.status = "failed", !.error = <<"upload">>]]
                        ELSE job_storage
    /\ http' = Response("diarize", j, 500)
    /\ UNCHANGED <<next_id, files, processed_audio, exc, outcome, fmt_in, fmt_out>>

\* diarize_audio, lines 284-304 and 314-317: the record is created and
\* opening the temporary file raises.
DiarizeOpenFail(filename) ==
    /\ http = Idle
    /\ IsSupported(filename)
    /\ next_id \in JobIds /\ pc[next_id] = "unused"
    /\ job_storage' = (next_id :> [NewRecord EXCEPT !.status = "failed",
                                                    !.error = <<"tempfile">>])
                      @@ job_storage
    /\ pc' = [pc EXCEPT ![next_id] = "rejected"]
    /\ next_id' = next_id + 1
    /\ http' = Response("diarize", next_id, 500)
    /\ UNCHANGED <<files, processed_audio, exc, outcome, fmt_in, fmt_out>>

\* get_job_status, lines 323-330: not found, or job = job_storage[job_id]
\* and the first field is read.
GetJobStatus(j) ==
    /\ http = Idle
    /\ IF Has(j)
         THEN http' = [Idle EXCEPT !.op = "get", !.id = j, !.at = "l331",
                                   !.status = job_storage[j].status]
         ELSE http' = Response("get", j, 404)
    /\ UNCHANGED <<job_storage, next_id, pc, files, processed_audio, exc, outcome, fmt_in, fmt_out>>

\* get_job_status, line 331.
GetReadProgress ==
    /\ http.op = "get" /\ http.at = "l331"
    /\ http' = [http EXCEPT !.at = "l332", !.progress = job_storage[http.id].progress]
    /\ UNCHANGED <<job_storage, next_id, pc, files, processed_audio, exc, outcome, fmt_in, fmt_out>>

\* get_job_status, line 332.
GetReadResult ==
    /\ http.op = "get" /\ http.at = "l332"
    /\ http' = [http EXCEPT !.at = "l333", !.result = job_storage[http.id].result]
    /\ UNCHANGED <<job_storage, next_id, pc, files, processed_audio, exc, outcome, fmt_in, fmt_out>>

\* get_job_status, lines 333-334: the last field is read and the JobStatus
\* is returned.
GetReadError ==
    /\ http.op = "get" /\ http.at = "l333"
    /\ http' = [http EXCEPT !.at = "response", !.code = 200,
                            !.error = job_storage[http.id].error]
    /\ UNCHANGED <<job_storage, next_id, pc, files, processed_audio, exc, outcome, fmt_in, fmt_out>>

\* Mutant of DeleteJob: deleting one job empties the dictionary.
DeleteJob_ClearsAll(j) ==
    /\ http = Idle
    /\ IF Has(j)
         THEN /\ job_storage' = << >>
              /\ http' = Response("delete", j, 200)
         ELSE /\ job_storage' = job_storage
              /\ http' = Response("delete", j, 404)
    /\ UNCHANGED <<next_id, pc, files, processed_audio, exc, outcome, fmt_in, fmt_out>>

\* delete_job, lines 340-344.
DeleteJob(j) ==
    /\ http = Idle
    /\ IF Has(j)
         THEN /\ job_storage' = [k \in DOMAIN job_storage \ {j} |-> job_storage[k]]
              /\ http' = Response("delete", j, 200)
         ELSE /\ job_storage' = job_storage
              /\ http' = Response("delete", j, 404)
    /\ UNCHANGED <<next_id, pc, files, processed_audio, exc, outcome, fmt_in, fmt_out>>

\* The response is sent; the background task of an accepted submission
\* starts after its response (BackgroundTasks, line 310).
Respond ==
    /\ http.at = "response"
    /\ http' = Idle
    /\ pc' = IF http.op = "diarize" /\ http.code = 200
               THEN [pc EXCEPT ![http.id] = "l115"]
               ELSE pc
    /\ UNCHANGED <<job_storage, next_id, files, processed_audio, exc, outcome, fmt_in, fmt_out>>

\* ------------------------------------------------------------------------
\* process_diarization, run by a thread of the pool.

\* An exception raised inside the try block (lines 111-170) is caught at
\* line 172.
Raise(j, msg) ==
    /\ pc' = [pc EXCEPT ![j] = "l174"]
    /\ exc' = [exc EXCEPT ![j] = <<msg>>]

\* Mutant of TryWrite: the write creates the record of a missing job id
\* (as dict.setdefault would) instead of raising KeyError.
TryWrite_Recreates(j, field, value, next) ==
    /\ job_storage' = IF Has(j)
                        THEN SetField(j, field, value)
                        ELSE (j :> [NewRecord EXCEPT ![field] = value]) @@ job_storage
    /\ pc' = [pc EXCEPT ![j] = next]
    /\ UNCHANGED <<next_id, files, processed_audio, exc, outcome, http, fmt_in, fmt_out>>

\* job_storage[job_id][field] = value in the try block (lines 111-170):
\* a missing job id raises KeyError.
TryWrite(j, field, value, next) ==
    /\ IF Has(j)
         THEN /\ job_storage' = SetField(j, field, value)
              /\ pc' = [pc EXCEPT ![j] = next]
              /\ exc' = exc
         ELSE /\ job_storage' = job_storage
              /\ Raise(j, "KeyError")
    /\ UNCHANGED <<next_id, files, processed_audio, outcome, http, fmt_in, fmt_out>>

\* A stage call in the try block: it returns, or it raises.
StageCall(j, next, msg) ==
    /\ \/ pc' = [pc EXCEPT ![j] = next] /\ exc' = exc
       \/ Raise(j, msg)
    /\ UNCHANGED <<job_storage, next_id, files, processed_audio, outcome, http, fmt_in, fmt_out>>

\* os.unlink(path) in the try block.
TryUnlink(j, path, next) ==
    /\ \/ /\ path \in files
          /\ files' = files \ {path}
          /\ pc' = [pc EXCEPT ![j] = next]
          /\ exc' = exc
       \/ /\ files' = files
          /\ Raise(j, "OSError")
    /\ UNCHANGED <<job_storage, next_id, processed_audio, outcome, http, fmt_in, fmt_out>>

L115(j) ==
    /\ pc[j] = "l115"
    /\ TryWrite(j, "status", "processing", "l116")
L116(j) ==
    /\ pc[j] = "l116"
    /\ TryWrite(j, "progress", ProgressStarted, "l119")

\* convert_audio_format, lines 83-107: it writes the normalized file and
\* returns its path, or it raises (as HTTPException 400): before
\* torchaudio.save (line 102) created the file, or from torchaudio.save
\* with the file already created. processed_audio is assigned only when
\* the call returns.
L119(j) ==
    /\ pc[j] = "l119"
    /\ \/ /\ files' = files \cup {ProcessedPath(j)}
          /\ processed_audio' = [processed_audio EXCEPT ![j] = ProcessedPath(j)]
          /\ pc' = [pc EXCEPT ![j] = "l122"]
          /\ exc' = exc
       \/ /\ UNCHANGED <<files, processed_audio>>
          /\ Raise(j, "Audio conversion failed")
       \/ /\ files' = files \cup {ProcessedPath(j)}
          /\ processed_audio' = processed_audio
          /\ Raise(j, "Audio conversion failed")
    /\ UNCHANGED <<job_storage, next_id, outcome, http, fmt_in, fmt_out>>

L122(j) ==
    /\ pc[j] = "l122"
    /\ StageCall(j, "l125", "load")
L125(j) ==
    /\ pc[j] = "l125"
    /\ TryWrite(j, "progress", ProgressNormalized, "l129")
L129(j) ==
    /\ pc[j] = "l129"
    /\ StageCall(j, "l132", "transcribe")
L132(j) ==
    /\ pc[j] = "l132"
    /\ TryWrite(j, "progress", ProgressTranscribed, "l136")
L136(j) ==
    /\ pc[j] = "l136"
    /\ StageCall(j, "l144", "align")
L144(j) ==
    /\ pc[j] = "l144"
    /\ TryWrite(j, "progress", ProgressAligned, "l148")
L148(j) ==
    /\ pc[j] = "l148"
    /\ StageCall(j, "l151", "diarize")
L151(j) ==
    /\ pc[j] = "l151"
    /\ TryWrite(j, "progress", ProgressDiarized, "l154")
L154(j) ==
    /\ pc[j] = "l154"
    /\ StageCall(j, "l161", "format")
L161(j) ==
    /\ pc[j] = "l161"
    /\ TryUnlink(j, processed_audio[j], "l162")

\* Mutant of L162: the upload is not deleted.
L162_KeepsUpload(j) ==
    /\ pc[j] = "l162"
    /\ pc' = [pc EXCEPT ![j] = "l165"]
    /\ UNCHANGED <<job_storage, next_id, files, processed_audio, exc, outcome, http, fmt_in, fmt_out>>

\* Lines 162-163.
L162(j) ==
    /\ pc[j] = "l162"
    /\ IF processed_audio[j] # UploadPath(j)
         THEN TryUnlink(j, UploadPath(j), "l165")
         ELSE /\ pc' = [pc EXCEPT ![j] = "l165"]
              /\ UNCHANGED <<job_storage, next_id, files, processed_audio, exc, outcome, http, fmt_in, fmt_out>>

\* Mutant of L165: the result is stored before the status is set.
L165_StoresResultFirst(j) ==
    /\ pc[j] = "l165"
    /\ TryWrite(j, "result", FormattedResult(j), "l166")

L165(j) ==
    /\ pc[j] = "l165"
    /\ TryWrite(j, "progress", ProgressDone, "l166")
L166(j) ==
    /\ pc[j] = "l166"
    /\ TryWrite(j, "status", "completed", "l167")
L167(j) ==
    /\ pc[j] = "l167"
    /\ TryWrite(j, "result", FormattedResult(j), "l170")

L170(j) ==
    /\ pc[j] = "l170"
    /\ pc' = [pc EXCEPT ![j] = "done"]
    /\ outcome' = [outcome EXCEPT ![j] = "returned"]
    /\ UNCHANGED <<job_storage, next_id, files, processed_audio, exc, http, fmt_in, fmt_out>>

\* job_storage[job_id][field] = value inside the except block (lines
\* 174-175): a KeyError raised here leaves process_diarization.
ExceptWrite(j, field, value, next) ==
    /\ IF Has(j)
         THEN /\ job_storage' = SetField(j, field, value)
              /\ pc' = [pc EXCEPT ![j] = next]
              /\ outcome' = outcome
         ELSE /\ job_storage' = job_storage
              /\ pc' = [pc EXCEPT ![j] = "done"]
              /\ outcome' = [outcome EXCEPT ![j] = "KeyError"]
    /\ UNCHANGED <<next_id, files, processed_audio, exc, http, fmt_in, fmt_out>>

\* Mutant of L174: the except block does not set the status.
L174_SkipsStatus(j) ==
    /\ pc[j] = "l174"
    /\ pc' = [pc EXCEPT ![j] = "l175"]
    /\ UNCHANGED <<job_storage, next_id, files, processed_audio, exc, outcome, http, fmt_in, fmt_out>>

L174(j) ==
    /\ pc[j] = "l174"
    /\ ExceptWrite(j, "status", "failed", "l175")
L175(j) ==
    /\ pc[j] = "l175"
    /\ ExceptWrite(j, "error", exc[j], "l178")

\* The files the guarded cleanup of lines 178-184 can leave: an unbound
\* processed_audio raises NameError at line 179, and any exception ends the
\* cleanup silently.
CleanupOutcomes(j) ==
    IF processed_audio[j] = Unbound
      THEN {files}
      ELSE LET afterFirst == files \ {processed_audio[j]}
               afterBoth == IF processed_audio[j] # UploadPath(j)
                              THEN afterFirst \ {UploadPath(j)}
                              ELSE afterFirst
           IN {afterBoth}
              \cup (IF processed_audio[j] \in files THEN {files} ELSE {})
              \cup (IF UploadPath(j) \in files THEN {afterFirst} ELSE {})

L178(j) ==
    /\ pc[j] = "l178"
    /\ files' \in CleanupOutcomes(j)
    /\ pc' = [pc EXCEPT ![j] = "l186"]
    /\ UNCHANGED <<job_storage, next_id, processed_audio, exc, outcome, http, fmt_in, fmt_out>>

L186(j) ==
    /\ pc[j] = "l186"
    /\ pc' = [pc EXCEPT ![j] = "done"]
    /\ outcome' = [outcome EXCEPT ![j] = "HTTPException"]
    /\ UNCHANGED <<job_storage, next_id, files, processed_audio, exc, http, fmt_in, fmt_out>>

process_diarization(j) ==
    \/ L115(j) \/ L116(j) \/ L119(j) \/ L122(j) \/ L125(j) \/ L129(j)
    \/ L132(j) \/ L136(j) \/ L144(j) \/ L148(j) \/ L151(j) \/ L154(j)
    \/ L161(j) \/ L162(j) \/ L165(j) \/ L166(j) \/ L167(j) \/ L170(j)
    \/ L174(j) \/ L175(j) \/ L178(j) \/ L186(j)

Next ==
    \/ \E f \in FileNames : DiarizeReject(f)
    \/ \E f \in FileNames : DiarizeAccept(f)
    \/ \E j \in JobIds : DiarizeSaved(j)
    \/ \E j \in JobIds : DiarizeSaveFail(j)
    \/ \E f \in FileNames : DiarizeOpenFail(f)
    \/ \E j \in JobIds : GetJobStatus(j)
    \/ GetReadProgress
    \/ GetReadResult
    \/ GetReadError
    \/ \E j \in JobIds : DeleteJob(j)
    \/ Respond
    \/ \E j \in JobIds : process_diarization(j)

Spec == Init /\ [][Next]_vars

\* The same service in a run with NumConcurrent submissions.
ConcurrentInit ==
    /\ JobInitOf(NumConcurrent)
    /\ fmt_in = [segments |-> <<>>, audio_duration |-> 0]
    /\ fmt_out = NotCalled

ConcurrentSpec == ConcurrentInit /\ [][Next]_vars

\* ------------------------------------------------------------------------
\* format_diarization_output on its own: one call on each input.

FmtInit ==
    /\ JobInit
    /\ \E c \in ChoiceSequences :
         LET segs == BuildSegments(c, 0)
         IN \E d \in AudioDurations(segs) :
              fmt_in = [segments |-> segs, audio_duration |-> d]
    /\ fmt_out = NotCalled

FmtCall ==
    /\ fmt_out = NotCalled
    /\ fmt_out' = format_diarization_output(fmt_in.segments, fmt_in.audio_duration)
    /\ UNCHANGED <<job_vars, fmt_in>>

FmtSpec == FmtInit /\ [][FmtCall]_vars

\* The background task is scheduled: the response of an accepted submission
\* is sent, and every thread of the pool keeps running.
FairSpec ==
    /\ Spec
    /\ WF_vars(Respond)
    /\ \A j \in JobIds : WF_vars(process_diarization(j))

\* ------------------------------------------------------------------------
\* Properties.

Terminal == {"completed", "failed"}

StatusSteps ==
    { <<"queued", "processing">>, <<"processing", "completed">>,
      <<"processing", "failed">>, <<"queued", "failed">> }

\* The task of job j has started and has not ended.
Running(j) == pc[j] \notin {"unused", "never", "l305", "scheduled", "rejected", "done"}

\* The messages of the exceptions the stages raise.
StageErrors ==
    { <<"Audio conversion failed">>, <<"load">>, <<"transcribe">>,
      <<"align">>, <<"diarize">>, <<"format">> }

\* C1: every step of a job's record keeps its status or moves it along
\* queued -> processing -> completed, queued -> processing -> failed or
\* queued -> failed, and a record whose status is completed or failed is
\* never changed again (status, progress, result, error).
C1_LifecycleAndTerminalImmutable ==
    [][\A j \in JobIds :
         (Has(j) /\ j \in DOMAIN job_storage') =>
            /\ \/ job_storage'[j].status = job_storage[j].status
               \/ <<job_storage[j].status, job_storage'[j].status>> \in StatusSteps
            /\ job_storage[j].status \in Terminal => job_storage'[j] = job_storage[j]
    ]_vars

\* C2: in every state of a record, progress is 1.0 exactly when status is
\* completed, and no step lowers progress.
C2_ProgressMonotoneAndOneIffCompleted ==
    [][\A j \in JobIds :
         j \in DOMAIN job_storage' =>
            /\ (job_storage'[j].progress = ProgressDone)
                  <=> (job_storage'[j].status = "completed")
            /\ Has(j) => job_storage'[j].progress >= job_storage[j].progress
    ]_vars

\* C3: a task whose record was deleted raises no error because of the
\* missing record: no KeyError is ever caught in, or leaves, the task.
C3_MissingRecordIsSilent ==
    \A j \in JobIds : exc[j] # <<"KeyError">> /\ outcome[j] # "KeyError"

\* C4: when a task has ended, on whatever path, neither the uploaded file
\* nor the normalized file of its job exists.
C4_TempFilesRemovedOnEveryExit ==
    \A j \in JobIds :
        pc[j] = "done" => UploadPath(j) \notin files /\ ProcessedPath(j) \notin files

\* C5: when a stage has raised and the task has ended with its record still
\* present, the record is failed with an error message and the task
\* returned: no exception left process_diarization.
C5_StageErrorsStayInsideTask ==
    \A j \in JobIds :
        (pc[j] = "done" /\ exc[j] \in StageErrors /\ Has(j)) =>
            /\ job_storage[j].status = "failed"
            /\ job_storage[j].error # None
            /\ outcome[j] = "returned"

\* C6: in every state a record's result is set only if its status is
\* completed and its error is set only if its status is failed.
C6_PayloadOnlyInItsTerminalState ==
    \A j \in DOMAIN job_storage :
        /\ job_storage[j].result # None => job_storage[j].status = "completed"
        /\ job_storage[j].error # None => job_storage[j].status = "failed"

\* A task that failed after synthesis (while deleting its files) has ended:
\* its record is failed, carries the error and has no result.
C6_Witness ==
    \E j \in JobIds :
        /\ pc[j] = "done" /\ Has(j)
        /\ exc[j] = <<"OSError">>
        /\ job_storage[j].status = "failed"
        /\ job_storage[j].error = <<"OSError">>
        /\ job_storage[j].result = None

\* C7: a JobStatus returned by get_job_status with status completed carries
\* a result, and one with status failed carries an error.
C7_TerminalStatusCarriesPayload ==
    (http.op = "get" /\ http.at = "response" /\ http.code = 200) =>
        /\ http.status = "completed" => http.result # None
        /\ http.status = "failed" => http.error # None

\* C8: a get_job_status or delete_job call for a job id that is not in
\* job_storage answers not-found and leaves job_storage unchanged, and a
\* job id that was handed out and is no longer in job_storage is never in
\* job_storage again.
C8_NotFoundAndNeverRecreated ==
    [][/\ \A j \in JobIds :
            (http = Idle /\ ~Has(j) /\ http'.op \in {"get", "delete"} /\ http'.id = j) =>
                /\ http'.at = "response"
                /\ http'.code = 404
                /\ job_storage' = job_storage
       /\ \A j \in JobIds :
            (j < next_id /\ ~Has(j)) => j \notin DOMAIN job_storage'
    ]_vars

\* get_job_status has answered not-found for a deleted job whose task is
\* still running.
C8_Witness ==
    /\ http.op = "get" /\ http.at = "response" /\ http.code = 404
    /\ http.id \in JobIds /\ http.id < next_id
    /\ Running(http.id)

\* C9: a diarize_audio call that is answered with an error leaves no record
\* under a job id it generated.
C9_RejectedSubmissionLeavesNoRecord ==
    (http.op = "diarize" /\ http.at = "response" /\ http.code # 200) =>
        (http.id = 0 \/ ~Has(http.id))

\* C10: once diarize_audio has returned a job id, the job's record is
\* eventually completed or failed, unless it is deleted.
C10_AcceptedJobEndsTerminal ==
    \A j \in JobIds :
        [](pc[j] = "scheduled" =>
              <>(~Has(j) \/ job_storage[j].status \in Terminal))

\* A task has returned and its record, never deleted, is completed.
C10_Witness ==
    \E j \in JobIds :
        /\ pc[j] = "done" /\ outcome[j] = "returned"
        /\ Has(j) /\ job_storage[j].status = "completed"


\* ------------------------------------------------------------------------
\* Claims about format_diarization_output, checked under FmtSpec.

Returned == fmt_out # NotCalled /\ fmt_out[1] = "returned"

Turns == fmt_out[2].segments

IsLabeled(segment) == "speaker" \in DOMAIN segment

AllLabeled(segs) == \A i \in 1..Len(segs) : IsLabeled(segs[i])

\* The indices at which a maximal run of same-speaker segments starts, and
\* the index at which the run starting at i ends.
RunStarts(segs) ==
    { i \in 1..Len(segs) : i = 1 \/ segs[i].speaker # segs[i - 1].speaker }

RunEnd(segs, i) ==
    CHOOSE j \in i..Len(segs) :
        /\ \A k \in i..j : segs[k].speaker = segs[i].speaker
        /\ j = Len(segs) \/ segs[j + 1].speaker # segs[i].speaker

NthRunStart(segs, n) ==
    CHOOSE i \in RunStarts(segs) :
        Cardinality({ x \in RunStarts(segs) : x <= i }) = n

\* The texts of segments i..j joined by single spaces, as they are and
\* after each was stripped.
RECURSIVE JoinRaw(_, _, _)
JoinRaw(segs, i, j) ==
    IF i = j THEN segs[i].text
    ELSE segs[i].text \o <<" ">> \o JoinRaw(segs, i + 1, j)

RECURSIVE JoinStripped(_, _, _)
JoinStripped(segs, i, j) ==
    IF i = j THEN Strip(segs[i].text)
    ELSE Strip(segs[i].text) \o <<" ">> \o JoinStripped(segs, i + 1, j)

\* One turn per maximal run, with the run's bounds; Text(segs, i, j) is the
\* text expected of the run i..j.
RunsAreTurns(segs, turns, Text(_, _, _)) ==
    /\ Len(turns) = Cardinality(RunStarts(segs))
    /\ \A n \in 1..Len(turns) :
         LET i == NthRunStart(segs, n)
             j == RunEnd(segs, i)
         IN /\ turns[n].speaker = segs[i].speaker
            /\ turns[n].start = segs[i].start
            /\ turns[n].end = segs[j].end
            /\ turns[n].text = Text(segs, i, j)
    /\ \A n \in 1..(Len(turns) - 1) : turns[n].speaker # turns[n + 1].speaker

\* C11 as stated: for labeled segments the output has one turn per maximal
\* run of consecutive same-speaker segments, no two adjacent turns share a
\* speaker, a turn starts at its run's first start and ends at its last end,
\* the trailing run is emitted, and a turn's text is the run's texts joined
\* by single spaces.
C11_TextIsRunTextsJoined ==
    (Returned /\ AllLabeled(fmt_in.segments))
        => RunsAreTurns(fmt_in.segments, Turns, JoinRaw)

\* C11 amended: the same, with a turn's text being the run's texts, each
\* stripped of surrounding whitespace, joined by single spaces and stripped
\* again.
C11_OneTurnPerMaximalRun ==
    (Returned /\ AllLabeled(fmt_in.segments))
        => RunsAreTurns(fmt_in.segments, Turns,
                        LAMBDA segs, i, j : Strip(JoinStripped(segs, i, j)))

\* A call on three labeled segments, the first two of one speaker and the
\* last of another, returned two turns.
C11_Witness ==
    /\ Returned
    /\ AllLabeled(fmt_in.segments)
    /\ Len(fmt_in.segments) = 3
    /\ fmt_in.segments[1].speaker = fmt_in.segments[2].speaker
    /\ fmt_in.segments[2].speaker # fmt_in.segments[3].speaker
    /\ Len(Turns) = 2


\* The segments that carry a speaker label, in order.
LabeledOnly(segs) == SelectSeq(segs, IsLabeled)

\* C12: segments without a speaker key are transparent: the call ends as
\* the call on the same segments with the unlabeled ones removed ends, with
\* the same turns and the same per-speaker statistics, so that two labeled
\* segments of one speaker separated only by unlabeled segments are merged
\* into one turn.
C12_UnlabeledSegmentsAreTransparent ==
    fmt_out # NotCalled =>
        LET without == format_diarization_output(LabeledOnly(fmt_in.segments),
                                                 fmt_in.audio_duration)
        IN /\ fmt_out[1] = without[1]
           /\ Returned =>
                /\ Turns = without[2].segments
                /\ fmt_out[2].speakers = without[2].speakers
                /\ Len(Turns) = Cardinality(RunStarts(LabeledOnly(fmt_in.segments)))

\* A call on a labeled segment, an unlabeled one and a labeled one of the
\* same speaker returned one turn.
C12_Witness ==
    /\ Returned
    /\ Len(fmt_in.segments) = 3
    /\ IsLabeled(fmt_in.segments[1])
    /\ ~IsLabeled(fmt_in.segments[2])
    /\ IsLabeled(fmt_in.segments[3])
    /\ fmt_in.segments[1].speaker = fmt_in.segments[3].speaker
    /\ Len(Turns) = 1
    /\ Turns[1].end = fmt_in.segments[3].end


\* No two consecutive segments share a speaker.
Alternating(segs) == \A i \in 1..(Len(segs) - 1) : segs[i].speaker # segs[i + 1].speaker

\* The turns are the segments one for one; Text(t) is the text expected of
\* the turn of a segment whose text is t.
OneForOne(segs, turns, Text(_)) ==
    /\ Len(turns) = Len(segs)
    /\ \A i \in 1..Len(turns) :
         /\ turns[i].speaker = segs[i].speaker
         /\ turns[i].start = segs[i].start
         /\ turns[i].end = segs[i].end
         /\ turns[i].text = Text(segs[i].text)

\* The turns a call on the turns of this call returns.
Refed == format_diarization_output(Turns, fmt_in.audio_duration)

\* C13 as stated: when the labeled segments already have no two consecutive
\* segments of one speaker, the turns equal the segments one for one in
\* count, speaker, start, end and text, and the turns of any call fed back
\* as input give the same turns.
C13_TurnsEqualSegments ==
    Returned =>
        /\ (AllLabeled(fmt_in.segments) /\ Alternating(fmt_in.segments))
               => OneForOne(fmt_in.segments, Turns, LAMBDA t : t)
        /\ Refed[1] = "returned" /\ Refed[2].segments = Turns

\* C13 amended: the same, with a turn's text being its segment's text
\* stripped of surrounding whitespace.
C13_MergeIsIdempotent ==
    Returned =>
        /\ (AllLabeled(fmt_in.segments) /\ Alternating(fmt_in.segments))
               => OneForOne(fmt_in.segments, Turns, Strip)
        /\ Refed[1] = "returned" /\ Refed[2].segments = Turns

\* A call on three labeled segments of alternating speakers, with a gap
\* before the second, returned three turns.
C13_Witness ==
    /\ Returned
    /\ Len(fmt_in.segments) = 3
    /\ AllLabeled(fmt_in.segments)
    /\ Alternating(fmt_in.segments)
    /\ fmt_in.segments[2].start > fmt_in.segments[1].end
    /\ Len(Turns) = 3


\* The sum of f[i] over the indices i of S.
RECURSIVE SumOver(_, _)
SumOver(S, f) ==
    IF S = {} THEN 0
    ELSE LET i == CHOOSE x \in S : TRUE
         IN f[i] + SumOver(S \ {i}, f)

\* The sum of Of(t) over the turns t of speaker k.
SumOfTurns(turns, k, Of(_)) ==
    SumOver({ i \in 1..Len(turns) : turns[i].speaker = k },
            [i \in 1..Len(turns) |-> Of(turns[i])])

\* C14: in a returned result every speaker's total_duration is the sum of
\* the durations of its turns, its segment_count is the number of its turns
\* and is at least 1, its word_count is the number of whitespace-delimited
\* tokens of its turns' texts, the speaker keys are the speakers of the
\* turns, and total_speakers is their number.
C14_StatisticsMatchTurns ==
    Returned =>
        LET result == fmt_out[2]
        IN /\ DOMAIN result.speakers = { Turns[i].speaker : i \in 1..Len(Turns) }
           /\ result.total_speakers = Cardinality(DOMAIN result.speakers)
           /\ \A k \in DOMAIN result.speakers :
                /\ result.speakers[k].total_duration
                     = SumOfTurns(Turns, k, LAMBDA t : t.duration)
                /\ result.speakers[k].segment_count = SumOfTurns(Turns, k, LAMBDA t : 1)
                /\ result.speakers[k].segment_count >= 1
                /\ result.speakers[k].word_count
                     = SumOfTurns(Turns, k, LAMBDA t : Len(Split(t.text)))

\* A call returned two speakers, one of them with two turns and three words.
C14_Witness ==
    /\ Returned
    /\ fmt_out[2].total_speakers = 2
    /\ \E k \in DOMAIN fmt_out[2].speakers :
         /\ fmt_out[2].speakers[k].segment_count = 2
         /\ fmt_out[2].speakers[k].word_count = 3


\* The segments are in chronological order, do not overlap, and lie within
\* the audio.
WellTimed(segs, audio_duration) ==
    /\ \A i \in 1..Len(segs) :
         0 <= segs[i].start /\ segs[i].start <= segs[i].end
                            /\ segs[i].end <= audio_duration
    /\ \A i \in 1..(Len(segs) - 1) : segs[i].end <= segs[i + 1].start

\* The sum of total_duration over the speakers of a returned result.
TotalSpoken ==
    SumOver(DOMAIN fmt_out[2].speakers,
            [k \in DOMAIN fmt_out[2].speakers |-> fmt_out[2].speakers[k].total_duration])

\* C15: for segments in chronological order that do not overlap and lie
\* within the audio, every speaker's total_duration and the sum of
\* total_duration over the speakers are at most audio_duration, unlabeled
\* segments between labeled ones included.
C15_DurationsWithinAudio ==
    (Returned /\ WellTimed(fmt_in.segments, fmt_in.audio_duration)) =>
        /\ \A k \in DOMAIN fmt_out[2].speakers :
             fmt_out[2].speakers[k].total_duration <= fmt_in.audio_duration
        /\ TotalSpoken <= fmt_in.audio_duration

\* A call on a labeled, an unlabeled and a labeled segment within the audio
\* returned turns that cover the whole audio.
C15_Witness ==
    /\ Returned
    /\ WellTimed(fmt_in.segments, fmt_in.audio_duration)
    /\ Len(fmt_in.segments) = 3
    /\ IsLabeled(fmt_in.segments[1])
    /\ ~IsLabeled(fmt_in.segments[2])
    /\ IsLabeled(fmt_in.segments[3])
    /\ fmt_in.audio_duration > 0
    /\ TotalSpoken = fmt_in.audio_duration


\* C16: a call with audio_duration = 0 never returns a result, whatever the
\* segments, a list without a labeled segment included.
C16_ZeroDurationNeverReturns ==
    (fmt_out # NotCalled /\ fmt_in.audio_duration = 0) => fmt_out[1] # "returned"


\* ------------------------------------------------------------------------
\* Claims about the cleanup of process_diarization, checked under Spec.

\* C18: when every stage and the formatting succeeded and a deletion of
\* the cleanup (lines 161-163) fails, process_diarization raises nothing
\* and the job ends completed with its result stored.
C18_CleanupFailureStillCompletes ==
    \A j \in JobIds :
        (pc[j] = "done" /\ exc[j] = <<"OSError">> /\ Has(j))
            => /\ outcome[j] = "returned"
               /\ job_storage[j].status = "completed"
               /\ job_storage[j].result # None

\* C19: while a job's status is completed, neither its upload nor its
\* normalized file exists.
C19_CompletedAfterCleanup ==
    \A j \in JobIds :
        (Has(j) /\ job_storage[j].status = "completed")
            => UploadPath(j) \notin files /\ ProcessedPath(j) \notin files

\* A job whose audio was normalized into a second file is completed.
C19_Witness ==
    \E j \in JobIds :
        /\ Has(j)
        /\ job_storage[j].status = "completed"
        /\ processed_audio[j] = ProcessedPath(j)


\* ------------------------------------------------------------------------
\* Claims about concurrent jobs, checked under ConcurrentSpec.

\* The record of job j, if it has one.
RecordOf(j) == IF Has(j) THEN <<job_storage[j]>> ELSE << >>

\* The step is taken for job j: its record is created, its submission or
\* its task moves, or delete_job(j) runs.
StepOf(j) ==
    \/ next_id = j /\ next_id' = j + 1
    \/ pc'[j] # pc[j]
    \/ http = Idle /\ http'.op = "delete" /\ http'.id = j

\* C17: with two jobs in the service, a step taken for one job leaves the
\* record of the other job as it is, and the task of a job can take its
\* next step whatever has happened to the other job.
C17_JobsAreIndependent ==
    /\ [][\A a \in JobIds : \A b \in JobIds \ {a} :
             StepOf(a) => RecordOf(b)' = RecordOf(b)]_vars
    /\ [](\A b \in JobIds : Running(b) => ENABLED process_diarization(b))

\* The task of one job failed and the other job is completed with its
\* result stored.
C17_Witness ==
    \E a \in JobIds : \E b \in JobIds \ {a} :
        /\ pc[a] = "done" /\ outcome[a] = "HTTPException"
        /\ Has(a) /\ job_storage[a].status = "failed"
        /\ Has(b) /\ job_storage[b].status = "completed"
        /\ job_storage[b].result = FormattedResult(b)

====
